---- MODULE Spec2Model ----
(***************************************************************************)
(* A model of src/stock_market.py: the Stock and User entities and the     *)
(* two-cursor merge of stock_market(actions, stock_actions).               *)
(*                                                                         *)
(* Numbers.  Prices, dividends and the dividend income are Python floats   *)
(* in the source.  They are modelled as exact rationals <<num, den>> in    *)
(* lowest terms with den > 0, so 12.3 is <<123, 10>>; float rounding is    *)
(* outside the model.  Share counts and split ratios are integers.         *)
(* Dates are the 'YYYY/MM/DD' strings of the source, compared with ==, <   *)
(* and >; they are modelled as day numbers with the same order.            *)
(***************************************************************************)
EXTENDS Integers, Sequences, FiniteSets, TLC

----------------------------------------------------------------------------
(* Exact rational arithmetic standing for the float arithmetic.            *)

Abs(n) == IF n < 0 THEN -n ELSE n

RECURSIVE GCD(_, _)
GCD(a, b) == IF b = 0 THEN a ELSE GCD(b, a % b)

\* The rational n/d (d # 0) in lowest terms with a positive denominator.
Rat(n, d) ==
    LET g == GCD(Abs(n), Abs(d))
        s == IF d < 0 THEN -1 ELSE 1
    IN  <<(s * n) \div g, (s * d) \div g>>

Zero == Rat(0, 1)

FromInt(n) == Rat(n, 1)

\* Sums and products, reduced before they are multiplied out.
RAdd(a, b) ==
    LET g == GCD(a[2], b[2])
    IN  Rat(a[1] * (b[2] \div g) + b[1] * (a[2] \div g), (a[2] \div g) * b[2])

RSub(a, b) == RAdd(a, <<-b[1], b[2]>>)

RMul(a, b) ==
    LET x == Rat(a[1], b[2])
        y == Rat(b[1], a[2])
    IN  Rat(x[1] * y[1], x[2] * y[2])

\* a / b for b # 0.
RDiv(a, b) == RMul(a, Rat(b[2], b[1]))

\* Python's int(x) on a float: truncation toward zero.
int(a) == IF a[1] >= 0 THEN a[1] \div a[2] ELSE -((-a[1]) \div a[2])

----------------------------------------------------------------------------
(* The two dictionaries.  `stocks` (ticker -> Stock) and `user.shares`     *)
(* (Stock -> share count) are Python dicts, which iterate in insertion     *)
(* order; each is a sequence of entries in insertion order.  A Stock has   *)
(* identity hashing and there is one Stock per ticker, so a Stock key is   *)
(* its ticker.                                                             *)

\* Stock.__init__
Stock(name, price, dividend, split) ==
    [name |-> name, price |-> price, dividend |-> dividend, split |-> split,
     updated_dividend |-> FALSE, updated_split |-> FALSE]

\* `ticker in stocks`
InStocks(stks, name) == \E k \in DOMAIN stks : stks[k].name = name

\* the position of stocks[ticker]
StockIdx(stks, name) == CHOOSE k \in DOMAIN stks : stks[k].name = name

\* `stock in user.shares`
InShares(shs, name) == \E k \in DOMAIN shs : shs[k].stock = name

ShareIdx(shs, name) == CHOOSE k \in DOMAIN shs : shs[k].stock = name

\* user.shares[stock]
SharesOf(shs, name) == shs[ShareIdx(shs, name)].n

\* user.shares[stock] = n for an existing key (the position is kept)
SetShares(shs, name, n) == [shs EXCEPT ![ShareIdx(shs, name)].n = n]

\* The entities an operation reads and writes: the registry and the User.
\* err is the exception the operation raised, "" for none.
World(stks, shs, inc, txs) ==
    [stocks |-> stks, shares |-> shs, dividend_income |-> inc,
     transactions |-> txs, err |-> ""]

----------------------------------------------------------------------------
(* class Stock                                                             *)

\* Stock.update_price
update_price(stk, price) == [stk EXCEPT !.price = price]

\* A credit that forgets the share count.
update_dividend_income_PerShare(w, name) ==
    IF InShares(w.shares, name)
    THEN [w EXCEPT !.dividend_income =
             RAdd(@, w.stocks[StockIdx(w.stocks, name)].dividend)]
    ELSE w

\* User.update_dividend_income
update_dividend_income(w, name) ==
    IF InShares(w.shares, name)
    THEN LET stk == w.stocks[StockIdx(w.stocks, name)]
         IN  [w EXCEPT !.dividend_income =
                 RAdd(@, RMul(stk.dividend, FromInt(SharesOf(w.shares, name))))]
    ELSE w

\* Stock.update_dividend
update_dividend(w, name, dividend) ==
    LET k  == StockIdx(w.stocks, name)
        w1 == [w EXCEPT !.stocks[k].dividend = dividend,
                        !.stocks[k].updated_dividend = TRUE]
    IN  IF InShares(w1.shares, name) THEN update_dividend_income(w1, name) ELSE w1

\* A split whose ratio multiplies whatever the earlier splits left: the
\* stored ratio is not divided out.
update_split_Cumulative(w, name, split) ==
    LET k  == StockIdx(w.stocks, name)
        w1 == [w EXCEPT !.stocks[k].price = RMul(@, Rat(1, split)),
                        !.stocks[k].updated_split = TRUE]
        w2 == IF InShares(w1.shares, name)
              THEN [w1 EXCEPT !.shares = SetShares(@, name,
                       int(RMul(FromInt(SharesOf(w1.shares, name)), Rat(split, 1))))]
              ELSE w1
    IN  [w2 EXCEPT !.stocks[k].split = split]

\* A split that stores the new ratio first and rescales with it.
update_split_StoreFirst(w, name, split) ==
    LET k == StockIdx(w.stocks, name)
    IN  [w EXCEPT !.stocks[k].split = split, !.stocks[k].updated_split = TRUE]

\* Stock.update_split
update_split(w, name, split) ==
    LET k   == StockIdx(w.stocks, name)
        old == w.stocks[k].split
        w1  == [w EXCEPT !.stocks[k].price = RMul(@, Rat(old, split)),
                         !.stocks[k].updated_split = TRUE]
        w2  == IF InShares(w1.shares, name)
               THEN [w1 EXCEPT !.shares = SetShares(@, name,
                        int(RMul(FromInt(SharesOf(w1.shares, name)), Rat(split, old))))]
               ELSE w1
    IN  [w2 EXCEPT !.stocks[k].split = split]

----------------------------------------------------------------------------
(* class User                                                              *)

\* An average of the two prices that ignores the share counts.
new_price_Unweighted(price, shares, stock_price, total) ==
    RDiv(RAdd(price, stock_price), FromInt(2))

\* The new price of line 143: the weighted average of the trade and the
\* holding before it; total is the holding after the trade, total # 0.
new_price(price, shares, stock_price, total) ==
    RDiv(RAdd(RMul(price, FromInt(shares)),
              RMul(stock_price, FromInt(total - shares))),
         FromInt(total))

\* A profit taken against the trade's own price.
profit_AtTradePrice(price, shares, stock_price) ==
    RSub(RMul(price, FromInt(shares)), RMul(FromInt(shares), price))

\* The profit of line 146.
profit(price, shares, stock_price) ==
    RSub(RMul(price, FromInt(shares)), RMul(FromInt(shares), stock_price))

\* User.add_transaction.  The BUY branch raises ZeroDivisionError at line 143
\* when the holding after the trade is 0 (the transaction and the holding are
\* already written); the SELL branch raises KeyError at line 147 when the
\* stock has no entry in user.shares (nothing is written).
add_transaction(w, action, name, shares, price) ==
    LET k   == StockIdx(w.stocks, name)
        stk == w.stocks[k]
    IN  IF action = "BUY"
        THEN LET w1 == [w EXCEPT !.transactions =
                                    Append(@, <<"BUY", name, shares, price>>)]
                 w2 == IF InShares(w1.shares, name) THEN w1
                       ELSE [w1 EXCEPT !.shares = Append(@, [stock |-> name, n |-> 0])]
                 w3 == [w2 EXCEPT !.shares =
                                    SetShares(@, name, SharesOf(w2.shares, name) + shares)]
                 total == SharesOf(w3.shares, name)
             IN  IF price # stk.price
                 THEN IF total = 0
                      THEN [w3 EXCEPT !.err = "ZeroDivisionError"]
                      ELSE [w3 EXCEPT !.stocks[k] =
                               update_price(stk, new_price(price, shares, stk.price, total))]
                 ELSE w3
        ELSE IF ~InShares(w.shares, name)
             THEN [w EXCEPT !.err = "KeyError"]
             ELSE [w EXCEPT
                     !.shares = SetShares(@, name, SharesOf(w.shares, name) - shares),
                     !.transactions =
                         Append(@, <<"SELL", name, shares, price,
                                     profit(price, shares, stk.price)>>)]

\* Holdings lines that walk the registry instead of user.shares.
HoldingLines_ByRegistry(w) ==
    LET held == SelectSeq(w.stocks,
                          LAMBDA e : InShares(w.shares, e.name)
                                        /\ SharesOf(w.shares, e.name) # 0)
    IN  [k \in DOMAIN held |->
            <<"holding", held[k].name, SharesOf(w.shares, held[k].name), held[k].price>>]

\* The lines of User.print_statement, in the order they are printed.
\* (a) lines 173-175: one line per entry of user.shares with a nonzero count.
HoldingLines(w) ==
    LET held == SelectSeq(w.shares, LAMBDA e : e.n # 0)
    IN  [k \in DOMAIN held |->
            <<"holding", held[k].stock, held[k].n,
              w.stocks[StockIdx(w.stocks, held[k].stock)].price>>]

\* (d), (e) lines 192-198: for each entry of user.shares, its dividend line
\* and then its split line, when the flag is set.
RECURSIVE ChangeLines(_, _)
ChangeLines(w, k) ==
    IF k > Len(w.shares) THEN <<>>
    ELSE LET e   == w.shares[k]
             stk == w.stocks[StockIdx(w.stocks, e.stock)]
             d   == IF stk.updated_dividend
                    THEN << <<"dividend", e.stock, stk.dividend, e.n>> >> ELSE <<>>
             s   == IF stk.updated_split
                    THEN << <<"split", e.stock, stk.split, e.n>> >> ELSE <<>>
         IN  d \o s \o ChangeLines(w, k + 1)

\* What one call of User.print_statement prints.
Statement(w, date) ==
    [date |-> date,
     holdings |-> HoldingLines(w),
     dividend_income |-> w.dividend_income,
     transactions |-> w.transactions,
     changes |-> ChangeLines(w, 1)]

\* User.print_statement: the state it leaves.  The transaction log is
\* emptied and both flags of every stock in user.shares are cleared.
User_print_statement(w, date) ==
    [w EXCEPT !.transactions = <<>>,
              !.stocks = [k \in DOMAIN w.stocks |->
                            IF InShares(w.shares, w.stocks[k].name)
                            THEN [w.stocks[k] EXCEPT !.updated_dividend = FALSE,
                                                     !.updated_split = FALSE]
                            ELSE w.stocks[k]]]

----------------------------------------------------------------------------
(* The two event handlers.                                                 *)

\* float('0.10') on a decimal text <<n, d>> and int('3') on a text <<r>>;
\* the empty text '' is <<>>.
float(text) == Rat(text[1], text[2])

parse_int(text) == text[1]

\* update_stock_action
update_stock_action(w, stock_action) ==
    LET name == stock_action.stock
        w1 == IF InStocks(w.stocks, name) THEN w
              ELSE [w EXCEPT !.stocks = Append(@, Stock(name, Zero, Zero, 1))]
        w2 == IF stock_action.dividend # <<>>
              THEN update_dividend(w1, name, float(stock_action.dividend)) ELSE w1
    IN  IF stock_action.split # <<>>
        THEN update_split(w2, name, parse_int(stock_action.split)) ELSE w2

\* update_user_action
update_user_action(w, user_action) ==
    LET name == user_action.ticker
        w1 == IF InStocks(w.stocks, name) THEN w
              ELSE [w EXCEPT !.stocks =
                       Append(@, Stock(name, user_action.price, Zero, 1))]
    IN  add_transaction(w1, user_action.action, name,
                        user_action.shares, user_action.price)

----------------------------------------------------------------------------
(* stock_market(actions, stock_actions)                                    *)

VARIABLES
    actions,          \* the trader stream, after the reformat of lines 262-265
    stock_actions,    \* the corporate stream
    i, j,             \* the two cursors (events consumed so far)
    stocks,           \* the registry, in creation order
    shares,           \* user.shares, in insertion order
    dividend_income,  \* user.dividend_income
    transactions,     \* user.transactions
    date,             \* the local `date` (0 while unbound)
    print_statement,  \* the local `print_statement` (FALSE while unbound)
    pc,               \* the line the function is at, "done" or "error"
    err,              \* the exception that ended the run, "" for none
    out,              \* the statements printed so far
    applied           \* the handler calls completed so far, in order

vars == <<actions, stock_actions, i, j, stocks, shares, dividend_income,
          transactions, date, print_statement, pc, err, out, applied>>

\* The entities as the handlers see them, and their write-back.
W == World(stocks, shares, dividend_income, transactions)

SetW(w) ==
    /\ stocks' = w.stocks
    /\ shares' = w.shares
    /\ dividend_income' = w.dividend_income
    /\ transactions' = w.transactions

\* An uncaught exception ends the run.
Raise(e) == pc' = "error" /\ err' = e

\* The date comparisons of lines 276, 286 and 292 and of the inner loops.
SameDate(d1, d2) == d1 = d2

Earlier(d1, d2) == d1 < d2

\* A merge whose inner loops never run: one event per pass of the outer loop.
MoreOnDate_Never(stream, k, d) == FALSE

\* The tests of the inner loops, lines 300, 307 and 318: the stream has an
\* event left at cursor k and its date is d.
MoreOnDate(stream, k, d) == k < Len(stream) /\ SameDate(stream[k + 1].date, d)

\* user.print_statement(date) at lines 312 and 322.
Emit(w, d) ==
    /\ out' = Append(out, Statement(w, d))
    /\ SetW(User_print_statement(w, d))

\* line 273 holds and line 276 holds: lines 277-279.
ScanEqual ==
    /\ pc = "L273"
    /\ i < Len(actions) /\ j < Len(stock_actions)
    /\ SameDate(actions[i + 1].date, stock_actions[j + 1].date)
    /\ date' = actions[i + 1].date
    /\ SetW(update_stock_action(W, stock_actions[j + 1]))
    /\ applied' = Append(applied, <<"stock", j + 1>>)
    /\ pc' = "L281"
    /\ UNCHANGED <<actions, stock_actions, i, j, print_statement, err, out>>

\* lines 281-284.
ScanEqualUser ==
    /\ pc = "L281"
    /\ LET w1 == update_user_action(W, actions[i + 1])
       IN  /\ SetW(w1)
           /\ IF w1.err # ""
              THEN /\ Raise(w1.err)
                   /\ UNCHANGED <<i, j, print_statement, applied>>
              ELSE /\ print_statement' = TRUE
                   /\ i' = i + 1
                   /\ j' = j + 1
                   /\ pc' = "L300"
                   /\ applied' = Append(applied, <<"user", i + 1>>)
                   /\ UNCHANGED err
    /\ UNCHANGED <<actions, stock_actions, date, out>>

\* line 273 holds and line 286 holds: lines 287-290.
ScanUserEarlier ==
    /\ pc = "L273"
    /\ i < Len(actions) /\ j < Len(stock_actions)
    /\ ~SameDate(actions[i + 1].date, stock_actions[j + 1].date)
    /\ Earlier(actions[i + 1].date, stock_actions[j + 1].date)
    /\ date' = actions[i + 1].date
    /\ LET w1 == update_user_action(W, actions[i + 1])
       IN  /\ SetW(w1)
           /\ IF w1.err # ""
              THEN /\ Raise(w1.err)
                   /\ UNCHANGED <<i, print_statement, applied>>
              ELSE /\ print_statement' = TRUE
                   /\ i' = i + 1
                   /\ pc' = "L300"
                   /\ applied' = Append(applied, <<"user", i + 1>>)
                   /\ UNCHANGED err
    /\ UNCHANGED <<actions, stock_actions, j, out>>

\* line 273 holds and line 292 holds: lines 293-297.
ScanStockEarlier ==
    /\ pc = "L273"
    /\ i < Len(actions) /\ j < Len(stock_actions)
    /\ ~SameDate(actions[i + 1].date, stock_actions[j + 1].date)
    /\ ~Earlier(actions[i + 1].date, stock_actions[j + 1].date)
    /\ Earlier(stock_actions[j + 1].date, actions[i + 1].date)
    /\ date' = stock_actions[j + 1].date
    /\ LET w1 == update_stock_action(W, stock_actions[j + 1])
       IN  /\ SetW(w1)
           /\ print_statement' = InShares(w1.shares, stock_actions[j + 1].stock)
    /\ j' = j + 1
    /\ pc' = "L300"
    /\ applied' = Append(applied, <<"stock", j + 1>>)
    /\ UNCHANGED <<actions, stock_actions, i, err, out>>

\* line 273 fails: on to the loop of line 315.
ScanExit ==
    /\ pc = "L273"
    /\ ~(i < Len(actions) /\ j < Len(stock_actions))
    /\ pc' = "L315"
    /\ UNCHANGED <<actions, stock_actions, i, j, stocks, shares, dividend_income,
                   transactions, date, print_statement, err, out, applied>>

\* one pass of the loop of lines 300-304.
SameDateStock ==
    /\ pc = "L300"
    /\ MoreOnDate(stock_actions, j, date)
    /\ LET w1 == update_stock_action(W, stock_actions[j + 1])
       IN  /\ SetW(w1)
           /\ print_statement' =
                 (print_statement \/ InShares(w1.shares, stock_actions[j + 1].stock))
    /\ j' = j + 1
    /\ applied' = Append(applied, <<"stock", j + 1>>)
    /\ UNCHANGED <<actions, stock_actions, i, date, pc, err, out>>

\* the loop of lines 300-304 ends.
SameDateStockExit ==
    /\ pc = "L300"
    /\ ~(MoreOnDate(stock_actions, j, date))
    /\ pc' = "L307"
    /\ UNCHANGED <<actions, stock_actions, i, j, stocks, shares, dividend_income,
                   transactions, date, print_statement, err, out, applied>>

\* one pass of the loop of lines 307-309.
SameDateUser ==
    /\ pc = "L307"
    /\ MoreOnDate(actions, i, date)
    /\ LET w1 == update_user_action(W, actions[i + 1])
       IN  /\ SetW(w1)
           /\ IF w1.err # ""
              THEN /\ Raise(w1.err)
                   /\ UNCHANGED <<i, applied>>
              ELSE /\ i' = i + 1
                   /\ applied' = Append(applied, <<"user", i + 1>>)
                   /\ UNCHANGED <<pc, err>>
    /\ UNCHANGED <<actions, stock_actions, j, date, print_statement, out>>

\* the loop of lines 307-309 ends: lines 311-312, and back to line 273.
ScanStatement ==
    /\ pc = "L307"
    /\ ~(MoreOnDate(actions, i, date))
    /\ IF print_statement
       THEN Emit(W, date)
       ELSE UNCHANGED <<stocks, shares, dividend_income, transactions, out>>
    /\ pc' = "L273"
    /\ UNCHANGED <<actions, stock_actions, i, j, date, print_statement, err, applied>>

\* line 315 holds: lines 316-317.
UserDrainDate ==
    /\ pc = "L315"
    /\ i < Len(actions)
    /\ date' = actions[i + 1].date
    /\ print_statement' = TRUE
    /\ pc' = "L318"
    /\ UNCHANGED <<actions, stock_actions, i, j, stocks, shares, dividend_income,
                   transactions, err, out, applied>>

\* line 315 fails: on to the loop of line 325.
UserDrainExit ==
    /\ pc = "L315"
    /\ ~(i < Len(actions))
    /\ pc' = "L325"
    /\ UNCHANGED <<actions, stock_actions, i, j, stocks, shares, dividend_income,
                   transactions, date, print_statement, err, out, applied>>

\* one pass of the loop of lines 318-320.
UserDrainApply ==
    /\ pc = "L318"
    /\ MoreOnDate(actions, i, date)
    /\ LET w1 == update_user_action(W, actions[i + 1])
       IN  /\ SetW(w1)
           /\ IF w1.err # ""
              THEN /\ Raise(w1.err)
                   /\ UNCHANGED <<i, applied>>
              ELSE /\ i' = i + 1
                   /\ applied' = Append(applied, <<"user", i + 1>>)
                   /\ UNCHANGED <<pc, err>>
    /\ UNCHANGED <<actions, stock_actions, j, date, print_statement, out>>

\* the loop of lines 318-320 ends: line 322, and back to line 315.
UserDrainStatement ==
    /\ pc = "L318"
    /\ ~(MoreOnDate(actions, i, date))
    /\ Emit(W, date)
    /\ pc' = "L315"
    /\ UNCHANGED <<actions, stock_actions, i, j, date, print_statement, err, applied>>

\* line 325 holds: line 326.
StockDrainDate ==
    /\ pc = "L325"
    /\ j < Len(stock_actions)
    /\ date' = stock_actions[j + 1].date
    /\ pc' = "L327"
    /\ UNCHANGED <<actions, stock_actions, i, j, stocks, shares, dividend_income,
                   transactions, print_statement, err, out, applied>>

\* line 325 fails: the function returns.
StockDrainExit ==
    /\ pc = "L325"
    /\ ~(j < Len(stock_actions))
    /\ pc' = "done"
    /\ UNCHANGED <<actions, stock_actions, i, j, stocks, shares, dividend_income,
                   transactions, date, print_statement, err, out, applied>>

\* The test of line 327 and what follows it.  The test reads actions[i]:
\* with i = len(actions) that is an IndexError.  Otherwise one pass of lines
\* 328-331, or the end of the loop with lines 333-334 and back to line 325.
StockDrainStep ==
    /\ pc = "L327"
    /\ IF j < Len(stock_actions) /\ ~(i < Len(actions))
       THEN /\ Raise("IndexError")
            /\ UNCHANGED <<j, stocks, shares, dividend_income, transactions,
                           print_statement, out, applied>>
       ELSE IF j < Len(stock_actions) /\ SameDate(actions[i + 1].date, date)
       THEN /\ LET w1 == update_stock_action(W, stock_actions[j + 1])
               IN  /\ SetW(w1)
                   /\ print_statement' =
                         (print_statement \/ InShares(w1.shares, stock_actions[j + 1].stock))
            /\ j' = j + 1
            /\ applied' = Append(applied, <<"stock", j + 1>>)
            /\ UNCHANGED <<pc, err, out>>
       ELSE /\ IF print_statement
               THEN Emit(W, date)
               ELSE UNCHANGED <<stocks, shares, dividend_income, transactions, out>>
            /\ pc' = "L325"
            /\ UNCHANGED <<j, print_statement, err, applied>>
    /\ UNCHANGED <<actions, stock_actions, i, date>>

Next ==
    \/ ScanEqual
    \/ ScanEqualUser
    \/ ScanUserEarlier
    \/ ScanStockEarlier
    \/ ScanExit
    \/ SameDateStock
    \/ SameDateStockExit
    \/ SameDateUser
    \/ ScanStatement
    \/ UserDrainDate
    \/ UserDrainExit
    \/ UserDrainApply
    \/ UserDrainStatement
    \/ StockDrainDate
    \/ StockDrainExit
    \/ StockDrainStep

----------------------------------------------------------------------------
(* The inputs.  Both streams are sorted ascending by date (the caller's    *)
(* duty); every pair of streams below is.                                  *)

MaxDate == 3
MaxActions == 2
MaxStockActions == 2
MaxHoldingActions == 2
MaxHoldingStockActions == 2
MaxTrades == 3

Dates == 1 .. MaxDate

Tickers == {"AAPL", "MSFT"}

\* The sequences over Items of length at most n, sorted ascending by date.
SortedSeqs(Items, n) ==
    UNION {{s \in [1 .. m -> Items] :
               \A k \in 1 .. (m - 1) : s[k].date <= s[k + 1].date} : m \in 0 .. n}

\* Trader actions as lines 262-265 leave them.
UserAction(d, a, t, n, p) ==
    [date |-> d, action |-> a, ticker |-> t, shares |-> n, price |-> p]

\* Corporate actions: dividend and split are texts, <<>> for ''.
StockAction(d, t, dv, sp) == [date |-> d, stock |-> t, dividend |-> dv, split |-> sp]

\* The merge: two tickers over the dates, Buys of one size and price, and
\* events that carry a dividend or a split.
MergeInputs ==
    LET U == {UserAction(d, "BUY", t, 500, Rat(123, 10)) : d \in Dates, t \in Tickers}
        S == {StockAction(d, t, k[1], k[2]) :
                 d \in Dates, t \in Tickers,
                 k \in {<< <<10, 100>>, <<>> >>, << <<>>, <<3>> >>}}
    IN  SortedSeqs(U, MaxActions) \X SortedSeqs(S, MaxStockActions)

\* The holding: one ticker over two dates, Buys of 500 and Sells of 1000
\* (a Sell overdraws a Buy), and events that carry a dividend, a split of
\* ratio 3 or 2, or a dividend and a split.
HoldingInputs ==
    LET U == {UserAction(d, "BUY", "AAPL", 500, Rat(123, 10)) : d \in 1 .. 2}
                \cup {UserAction(d, "SELL", "AAPL", 1000, Rat(123, 10)) : d \in 1 .. 2}
        S == {StockAction(d, "AAPL", k[1], k[2]) :
                 d \in 1 .. 2,
                 k \in {<< <<10, 100>>, <<>> >>, << <<>>, <<3>> >>, << <<>>, <<2>> >>,
                        << <<10, 100>>, <<3>> >>}}
    IN  SortedSeqs(U, MaxHoldingActions) \X SortedSeqs(S, MaxHoldingStockActions)

\* The trades: one ticker on one date, Buys and Sells of two sizes at two
\* prices, no corporate action.
TradeInputs ==
    LET U == {UserAction(1, a, "AAPL", n, p) :
                 a \in {"BUY", "SELL"}, n \in {500, 1000},
                 p \in {Rat(123, 10), Rat(20, 1)}}
    IN  SortedSeqs(U, MaxTrades) \X {<<>>}

\* The run of lines 337-340, its eleven dates numbered in order.
MainExample ==
    << << UserAction(1, "BUY", "AAPL", 500, Rat(123, 10)),
          UserAction(4, "SELL", "AAPL", 100, Rat(153, 10)),
          UserAction(5, "BUY", "MSFT", 300, Rat(20, 1)),
          UserAction(8, "SELL", "MSFT", 200, Rat(202, 10)),
          UserAction(9, "BUY", "MSFT", 500, Rat(21, 1)),
          UserAction(10, "SELL", "MSFT", 600, Rat(182, 10)),
          UserAction(11, "SELL", "AAPL", 300, Rat(203, 10)),
          UserAction(11, "BUY", "MSFT", 500, Rat(183, 10)) >>,
       << StockAction(2, "AAPL", <<10, 100>>, <<>>),
          StockAction(3, "AAPL", <<>>, <<3>>),
          StockAction(6, "MSFT", <<20, 100>>, <<>>),
          StockAction(7, "ABC", <<20, 100>>, <<>>) >> >>

\* A short position carried through two splits: AAPL splits 3 to 1 before it
\* is bought, is oversold on the same date, and splits 2 to 1 on the next.
ShortExample ==
    << << UserAction(1, "BUY", "AAPL", 500, Rat(123, 10)),
          UserAction(1, "SELL", "AAPL", 1000, Rat(123, 10)),
          UserAction(3, "BUY", "AAPL", 500, Rat(123, 10)) >>,
       << StockAction(1, "AAPL", <<>>, <<3>>),
          StockAction(2, "AAPL", <<>>, <<2>>) >> >>

Inputs ==
    MergeInputs \cup HoldingInputs \cup TradeInputs \cup {MainExample, ShortExample}

\* The state at line 273, first time.
Init ==
    /\ \E in \in Inputs : actions = in[1] /\ stock_actions = in[2]
    /\ i = 0
    /\ j = 0
    /\ stocks = <<>>
    /\ shares = <<>>
    /\ dividend_income = Zero
    /\ transactions = <<>>
    /\ date = 0
    /\ print_statement = FALSE
    /\ pc = "L273"
    /\ err = ""
    /\ out = <<>>
    /\ applied = <<>>

Spec == Init /\ [][Next]_vars

----------------------------------------------------------------------------
(* Properties.                                                             *)

\* The run has ended.
Ended == pc \in {"done", "error"}

\* The run has ended and no trade handler raised: it returned, or the merge
\* itself raised.
MergeEnded == pc = "done" \/ (pc = "error" /\ err = "IndexError")

\* The dates of the statements printed so far, in the order printed.
StatementDates == [k \in DOMAIN out |-> out[k].date]

HasStatement(d) == \E k \in DOMAIN out : out[k].date = d

UserDates == {actions[k].date : k \in DOMAIN actions}

StockDates == {stock_actions[m].date : m \in DOMAIN stock_actions}

\* The number of times a handler call is in the log.
Count(e) == Cardinality({a \in DOMAIN applied : applied[a] = e})

\* C1: for every pair of date-sorted streams stock_market raises no error and
\* ends with both cursors exhausted, every event of both streams applied
\* exactly once.  (An error raised by a trade handler is the subject of C7;
\* the formula speaks of the merge: it fails on no such error.)
C1_TerminatesNormally ==
    /\ ~(pc = "error" /\ err = "IndexError")
    /\ pc = "done" =>
          /\ i = Len(actions)
          /\ j = Len(stock_actions)
          /\ \A k \in DOMAIN actions : Count(<<"user", k>>) = 1
          /\ \A m \in DOMAIN stock_actions : Count(<<"stock", m>>) = 1

\* C2: on a date shared by both streams every corporate action of the date is
\* applied before any trader action of the date: when a trader action has
\* been applied, every corporate action of its date was applied before it.
C2_CorporateBeforeTrader ==
    \A a \in DOMAIN applied :
        applied[a][1] = "user" =>
            \A m \in DOMAIN stock_actions :
                stock_actions[m].date = actions[applied[a][2]].date =>
                    \E b \in 1 .. (a - 1) : applied[b] = <<"stock", m>>

\* A BUY of the ticker dated before d: the instrument has an entry in
\* user.shares once the trader actions before d are applied.
HeldBefore(t, d) ==
    \E k \in DOMAIN actions :
        actions[k].date < d /\ actions[k].action = "BUY" /\ actions[k].ticker = t

\* C3: for every date with corporate actions and no trader action, a
\* statement for the date is printed if and only if one of its corporate
\* actions affects an instrument that has an entry in user.shares; in the
\* scan of both streams and in the corporate-only drain alike.  (Stated of
\* the runs in which no trade handler raised.)
C3_CorporateOnlyDates ==
    MergeEnded =>
        \A d \in StockDates \ UserDates :
            HasStatement(d) <=>
                \E m \in DOMAIN stock_actions :
                    stock_actions[m].date = d /\ HeldBefore(stock_actions[m].stock, d)

\* The end-to-end scenario: BUY 500 AAPL at 12.3 on day 1, AAPL dividend 0.10
\* on day 2, AAPL split 3 on day 3.
ScenarioActions == <<UserAction(1, "BUY", "AAPL", 500, Rat(123, 10))>>

ScenarioStockActions ==
    <<StockAction(2, "AAPL", <<10, 100>>, <<>>), StockAction(3, "AAPL", <<>>, <<3>>)>>

\* C4: on the end-to-end scenario a statement is printed for each of the
\* three days, and the statement of day 3 shows 1500 shares of AAPL at 4.10
\* and a dividend income of 50.00.
C4_EndToEnd ==
    (actions = ScenarioActions /\ stock_actions = ScenarioStockActions /\ Ended) =>
        /\ StatementDates = <<1, 2, 3>>
        /\ out[3].holdings = << <<"holding", "AAPL", 1500, Rat(410, 100)>> >>
        /\ out[3].dividend_income = Rat(5000, 100)

\* The trader actions of date d have all been applied.
UserDateApplied(d) ==
    \A k \in DOMAIN actions : actions[k].date = d => Count(<<"user", k>>) = 1

\* C5: exactly one statement is printed for every date that has a trader
\* action, and it is printed only after all trader actions of the date are
\* applied.
C5_OneStatementPerTraderDate ==
    /\ Ended => \A d \in UserDates :
                   Cardinality({k \in DOMAIN out : out[k].date = d}) = 1
    /\ \A k \in DOMAIN out : UserDateApplied(out[k].date)

\* C5 in the runs in which no trade handler raised.
C5_WhenNoHandlerRaises ==
    /\ MergeEnded => \A d \in UserDates :
                        Cardinality({k \in DOMAIN out : out[k].date = d}) = 1
    /\ \A k \in DOMAIN out : UserDateApplied(out[k].date)

\* C6: the statements are printed in strictly increasing date order (so at
\* most one per date), and each pass of a merge loop consumes every event of
\* its date from both streams: when a loop is at its head, the events left in
\* both streams are dated after `date`.
C6_Chronological ==
    /\ \A a, b \in DOMAIN out : a < b => out[a].date < out[b].date
    /\ pc \in {"L273", "L315", "L325", "done"} =>
          /\ \A k \in (i + 1) .. Len(actions) : actions[k].date > date
          /\ \A m \in (j + 1) .. Len(stock_actions) : stock_actions[m].date > date

\* A run that returned after two statements, one of them for a date that
\* has two trader actions and a corporate action.
C6_Witness ==
    /\ pc = "done"
    /\ Len(out) >= 2
    /\ \E k \in DOMAIN actions, l \in DOMAIN actions, m \in DOMAIN stock_actions :
          /\ k < l
          /\ actions[k].date = actions[l].date
          /\ stock_actions[m].date = actions[k].date

\* This step is a call of update_user_action on actions[i + 1]: it completes
\* or it raises.
UserCall ==
    \/ applied' = Append(applied, <<"user", i + 1>>)
    \/ err = "" /\ err' \in {"KeyError", "ZeroDivisionError"}

\* This step is a call of update_stock_action on stock_actions[j + 1].
StockCall == applied' = Append(applied, <<"stock", j + 1>>)

\* The price of the ticker as a trade of price p finds it: a ticker not yet
\* in the registry is created at the trade price.
PriceAt(t, p) == IF InStocks(stocks, t) THEN stocks[StockIdx(stocks, t)].price ELSE p

\* The holding of the ticker, 0 without an entry in user.shares.
HoldingOf(shs, t) == IF InShares(shs, t) THEN SharesOf(shs, t) ELSE 0

\* C7: every Sell of k shares at price p, whatever the holding (also for an
\* instrument never bought), raises no error, appends a Sell transaction
\* with profit (p - q) * k for the instrument's price q at that moment, and
\* decrements the holding by k.
C7_SellNeverFails ==
    [][(UserCall /\ actions[i + 1].action = "SELL") =>
          LET a == actions[i + 1]
              q == PriceAt(a.ticker, a.price)
          IN  /\ err' = ""
              /\ transactions' =
                    Append(transactions,
                           <<"SELL", a.ticker, a.shares, a.price,
                             RMul(RSub(a.price, q), FromInt(a.shares))>>)
              /\ InShares(shares', a.ticker)
              /\ SharesOf(shares', a.ticker) = HoldingOf(shares, a.ticker) - a.shares]_vars

\* C7 for a Sell of an instrument that has an entry in user.shares.
C7_SellOfHeld ==
    [][(UserCall /\ actions[i + 1].action = "SELL"
             /\ InShares(shares, actions[i + 1].ticker)) =>
          LET a == actions[i + 1]
              q == PriceAt(a.ticker, a.price)
          IN  /\ err' = ""
              /\ transactions' =
                    Append(transactions,
                           <<"SELL", a.ticker, a.shares, a.price,
                             RMul(RSub(a.price, q), FromInt(a.shares))>>)
              /\ SharesOf(shares', a.ticker) = SharesOf(shares, a.ticker) - a.shares]_vars

\* The Stock of ticker t in registry stks.
StockOf(stks, t) == stks[StockIdx(stks, t)]

\* C8: a dividend of d per share applied to an instrument with a holdings
\* entry of n shares adds exactly d * n to the dividend income, n as it is
\* when the dividend is applied, and sets the instrument's dividend to d;
\* applied to an instrument without an entry it leaves the dividend income
\* and all holdings unchanged.
C8_Dividend ==
    [][(StockCall /\ stock_actions[j + 1].dividend # <<>>) =>
          LET t == stock_actions[j + 1].stock
              d == float(stock_actions[j + 1].dividend)
          IN  /\ StockOf(stocks', t).dividend = d
              /\ IF InShares(shares, t)
                 THEN dividend_income' =
                         RAdd(dividend_income, RMul(d, FromInt(SharesOf(shares, t))))
                 ELSE dividend_income' = dividend_income /\ shares' = shares]_vars

\* A dividend of 0.10 was paid on a holding of 500 shares: 50.00 of income;
\* and one was paid on an instrument without an entry.
C8_Witness ==
    /\ dividend_income = Rat(50, 1)
    /\ \E k \in DOMAIN stocks : stocks[k].updated_dividend /\ InShares(shares, stocks[k].name)
    /\ \E k \in DOMAIN stocks : stocks[k].updated_dividend /\ ~InShares(shares, stocks[k].name)

\* n2 is n * r / s truncated toward zero (s > 0).
IsTruncated(n2, n, r, s) ==
    IF n * r >= 0
    THEN n2 * s <= n * r /\ n * r < (n2 + 1) * s
    ELSE (n2 - 1) * s < n * r /\ n * r <= n2 * s

CallsOn(t) ==
    SelectSeq(applied,
              LAMBDA e : IF e[1] = "user" THEN actions[e[2]].ticker = t
                         ELSE stock_actions[e[2]].stock = t)

\* The log holds, for ticker t, a Buy first and then only Buys of a positive
\* share count and corporate actions without a split.
OnlyBuys(t) ==
    LET c == CallsOn(t)
    IN  /\ c # <<>>
        /\ c[1][1] = "user"
        /\ \A k \in DOMAIN c :
              IF c[k][1] = "user"
              THEN actions[c[k][2]].action = "BUY" /\ actions[c[k][2]].shares > 0
              ELSE stock_actions[c[k][2]].split = <<>>

\* The sum of price * shares, and of shares, over the Buys among c[1 .. k].
RECURSIVE Paid(_, _)
Paid(c, k) ==
    IF k = 0 THEN Zero
    ELSE IF c[k][1] = "user"
         THEN RAdd(Paid(c, k - 1),
                   RMul(actions[c[k][2]].price, FromInt(actions[c[k][2]].shares)))
         ELSE Paid(c, k - 1)

RECURSIVE Bought(_, _)
Bought(c, k) ==
    IF k = 0 THEN 0
    ELSE IF c[k][1] = "user" THEN Bought(c, k - 1) + actions[c[k][2]].shares
         ELSE Bought(c, k - 1)

InputTickers ==
    {actions[k].ticker : k \in DOMAIN actions}
        \cup {stock_actions[m].stock : m \in DOMAIN stock_actions}

\* C10: after each Buy of a sequence of Buys (no Sell, no split) on an
\* instrument first referenced by the first of them, the instrument's price
\* is the volume-weighted average of the trade prices so far; and a Buy at
\* the instrument's current price leaves the price unchanged.
C10_VolumeWeighted ==
    /\ [](\A t \in InputTickers :
             OnlyBuys(t) =>
                 StockOf(stocks, t).price =
                     RDiv(Paid(CallsOn(t), Len(CallsOn(t))),
                          FromInt(Bought(CallsOn(t), Len(CallsOn(t))))))
    /\ [][(UserCall /\ err' = "" /\ actions[i + 1].action = "BUY"
              /\ actions[i + 1].price = PriceAt(actions[i + 1].ticker, actions[i + 1].price)) =>
             StockOf(stocks', actions[i + 1].ticker).price = actions[i + 1].price]_vars

\* Three Buys of AAPL, 1000 at 12.3, 500 at 20 and 500 at 12.3: 14.225.
C10_Witness ==
    /\ OnlyBuys("AAPL")
    /\ Bought(CallsOn("AAPL"), Len(CallsOn("AAPL"))) = 2000
    /\ StockOf(stocks, "AAPL").price = Rat(14225, 1000)

\* C11: in every statement printed, every dividend-change line comes before
\* every split-change line (the groups (a), (b), (c) are the fields holdings,
\* dividend_income and transactions of the statement, printed in that order
\* ahead of the change lines).
C11_DividendLinesBeforeSplitLines ==
    \A k \in DOMAIN out :
        \A a \in DOMAIN out[k].changes, b \in DOMAIN out[k].changes :
            (out[k].changes[a][1] = "split" /\ out[k].changes[b][1] = "dividend") => b < a

\* The trader actions of date d in stream order, as the transaction log
\* names them: action, ticker, share count and price.
TradesOf(d) ==
    LET on == SelectSeq(actions, LAMBDA a : a.date = d)
    IN  [k \in DOMAIN on |-> <<on[k].action, on[k].ticker, on[k].shares, on[k].price>>]

\* The transactions a statement lists, without the profit of a Sell.
Listed(st) == [k \in DOMAIN st.transactions |-> SubSeq(st.transactions[k], 1, 4)]

\* Every statement lists the trader actions of its own date, all of them, in
\* stream order, and nothing else; a render leaves the log empty.
ListsOwnDate ==
    /\ [](\A k \in DOMAIN out : Listed(out[k]) = TradesOf(out[k].date))
    /\ [][out' # out => transactions' = <<>>]_vars

\* C12: every trader action is listed as a transaction in exactly one
\* statement, the statement of its own date, in stream order among the
\* transactions of that date; the transaction log is empty right after every
\* render, so nothing is carried into or repeated in a later statement.
C12_ListedExactlyOnce ==
    /\ ListsOwnDate
    /\ [](Ended => \A d \in UserDates :
                      Cardinality({k \in DOMAIN out : out[k].date = d}) = 1)

\* C12 in the runs in which no trade handler raised.
C12_WhenNoHandlerRaises ==
    /\ ListsOwnDate
    /\ [](MergeEnded => \A d \in UserDates :
                           Cardinality({k \in DOMAIN out : out[k].date = d}) = 1)

\* Every corporate action is applied in the pass of the outer loop that
\* handles its own date, so the events applied between two statements are
\* those dated after the first and up to the second (statement dates
\* strictly increase, C6).
AppliedInOwnCycle == [][StockCall => stock_actions[j + 1].date = date']_vars

\* The date of the statement before out[k], 0 for the first statement.
PreviousDate(k) == IF k = 1 THEN 0 ELSE out[k - 1].date

\* Corporate action m carries a change of the kind ("dividend" or "split").
Carries(m, kind) ==
    IF kind = "dividend" THEN stock_actions[m].dividend # <<>>
    ELSE stock_actions[m].split # <<>>

\* C13: a statement has a dividend-change (split-change) line for an
\* instrument only if a dividend (split) event of that instrument was applied
\* after the previous statement, or since the start for the first statement.
C13_ChangesOfThisCycle ==
    \A k \in DOMAIN out :
        \A c \in DOMAIN out[k].changes :
            LET ln == out[k].changes[c]
            IN  \E m \in DOMAIN stock_actions :
                    /\ stock_actions[m].stock = ln[2]
                    /\ Carries(m, ln[1])
                    /\ Count(<<"stock", m>>) = 1
                    /\ PreviousDate(k) < stock_actions[m].date
                    /\ stock_actions[m].date <= out[k].date

\* C14: a Sell leaves every instrument of the registry as it was (price,
\* dividend, split ratio and both flags) and leaves the dividend income as it
\* was, whether it completes or raises; a Sell that completes leaves the
\* registry itself as it was, changes the holding of its own ticker only, and
\* logs the profit p * k - k * q for the price q the instrument had before
\* the Sell.  So no Sell performs the volume-weighted price update.
C14_SellFrame ==
    [][(UserCall /\ actions[i + 1].action = "SELL") =>
          LET a == actions[i + 1]
              q == PriceAt(a.ticker, a.price)
          IN  /\ Len(stocks') >= Len(stocks)
              /\ \A k \in DOMAIN stocks : stocks'[k] = stocks[k]
              /\ dividend_income' = dividend_income
              /\ err' = "" =>
                    /\ stocks' = stocks
                    /\ Len(transactions') = Len(transactions) + 1
                    /\ transactions'[Len(transactions')][5] =
                          RSub(RMul(a.price, FromInt(a.shares)),
                               RMul(FromInt(a.shares), q))
                    /\ DOMAIN shares' = DOMAIN shares
                    /\ \A k \in DOMAIN shares :
                          shares[k].stock # a.ticker => shares'[k] = shares[k]]_vars

\* A Sell at a price other than the instrument's completed: its profit is
\* not zero.
C14_Witness ==
    \E k \in DOMAIN transactions :
        transactions[k][1] = "SELL" /\ transactions[k][5] # Zero

\* The tickers of the holdings lines of a statement, in the order printed.
HoldingTickers(st) == [k \in DOMAIN st.holdings |-> st.holdings[k][2]]

\* The place in the trader stream of the first Buy of ticker t.
FirstBuy(t) ==
    CHOOSE k \in DOMAIN actions :
        /\ actions[k].action = "BUY" /\ actions[k].ticker = t
        /\ \A l \in 1 .. (k - 1) : ~(actions[l].action = "BUY" /\ actions[l].ticker = t)

\* C15 as claimed: the holdings lines of every statement list the instruments
\* with a nonzero share count in the order in which the instruments were
\* first created, that is, first referenced by either stream (the order of
\* the registry).
C15_CreationOrder ==
    \A k \in DOMAIN out :
        LET hs == HoldingTickers(out[k])
        IN  /\ \A a \in DOMAIN hs : out[k].holdings[a][3] # 0
            /\ \A a \in DOMAIN hs, b \in DOMAIN hs :
                  a < b => StockIdx(stocks, hs[a]) < StockIdx(stocks, hs[b])

\* C15 as amended: the holdings lines of every statement list exactly the
\* instruments with a nonzero share count, in the order in which their
\* holdings entries were created, that is, in the order of the first Buy of
\* each instrument.
C15_FirstBuyOrder ==
    /\ [](\A k \in DOMAIN out :
             LET hs == HoldingTickers(out[k])
             IN  /\ \A a \in DOMAIN hs :
                       /\ out[k].holdings[a][3] # 0
                       /\ \E l \in DOMAIN actions :
                             actions[l].action = "BUY" /\ actions[l].ticker = hs[a]
                 /\ \A a \in DOMAIN hs, b \in DOMAIN hs :
                       a < b => FirstBuy(hs[a]) < FirstBuy(hs[b]))
    /\ [][out' # out =>
             LET st == out'[Len(out')]
             IN  /\ {st.holdings[a][2] : a \in DOMAIN st.holdings} =
                       {shares[k].stock : k \in {l \in DOMAIN shares : shares[l].n # 0}}
                 /\ \A a \in DOMAIN st.holdings :
                       st.holdings[a][3] = SharesOf(shares, st.holdings[a][2])]_vars

\* A statement lists MSFT before AAPL although AAPL was created first (by a
\* corporate action) and comes first in the alphabet: MSFT was bought first.
C15_Witness ==
    \E k \in DOMAIN out :
        /\ HoldingTickers(out[k]) = <<"MSFT", "AAPL">>
        /\ StockIdx(stocks, "AAPL") < StockIdx(stocks, "MSFT")

\* C16: no Buy raises an error: whenever the trade price differs from the
\* instrument's price, so that the volume-weighted update is performed, the
\* holding after the trade, its divisor, is not zero.
C16_BuyNeverFails ==
    [][(UserCall /\ actions[i + 1].action = "BUY") =>
          LET a == actions[i + 1]
          IN  /\ err' = ""
              /\ a.price # PriceAt(a.ticker, a.price) =>
                    HoldingOf(shares, a.ticker) + a.shares # 0]_vars

\* The ratio stored for the ticker as a corporate action finds it: a ticker
\* not yet in the registry is created with ratio 1.
SplitAt(t) == IF InStocks(stocks, t) THEN StockOf(stocks, t).split ELSE 1

\* C17: a split whose ratio equals the stored ratio of its instrument leaves
\* the instrument's price and every share count as they were; it keeps the
\* ratio and sets the split-changed flag.
C17_SameRatioSplit ==
    [][(StockCall /\ stock_actions[j + 1].split # <<>>
            /\ parse_int(stock_actions[j + 1].split) = SplitAt(stock_actions[j + 1].stock)) =>
          LET t == stock_actions[j + 1].stock
          IN  /\ StockOf(stocks', t).price = PriceAt(t, Zero)
              /\ StockOf(stocks', t).split = SplitAt(t)
              /\ StockOf(stocks', t).updated_split
              /\ shares' = shares]_vars

\* The split 3 to 1 of AAPL was applied twice to a holding of 500 shares
\* bought at 12.3: 1500 shares at 4.10, not 4500.
C17_Witness ==
    /\ \E m \in DOMAIN stock_actions, n \in DOMAIN stock_actions :
          /\ m < n
          /\ stock_actions[m].stock = "AAPL" /\ stock_actions[n].stock = "AAPL"
          /\ stock_actions[m].split = <<3>> /\ stock_actions[n].split = <<3>>
          /\ Count(<<"stock", m>>) = 1 /\ Count(<<"stock", n>>) = 1
    /\ InStocks(stocks, "AAPL") /\ InShares(shares, "AAPL")
    /\ SharesOf(shares, "AAPL") = 1500
    /\ StockOf(stocks, "AAPL").price = Rat(41, 10)
    /\ StockOf(stocks, "AAPL").split = 3

====
